---- MODULE Spec2Model ----
(***************************************************************************)
(* A model of the m3a desktop agent: the action executor (agent/executor), *)
(* the pydesktop primitives it drives (mouse, keyboard, screen), the       *)
(* perceive-decide-act loop (agent/core) and the GUI worker thread that    *)
(* hosts it (agent/gui).                                                   *)
(***************************************************************************)
EXTENDS Integers, Sequences, FiniteSets, TLC

(***************************************************************************)
(* Python's Optional values: None is the empty tuple, a value v is <<v>>.  *)
(***************************************************************************)
None == <<>>
Some(v) == <<v>>
IsNone(o) == o = <<>>
Val(o) == o[1]
Str(o) == IF IsNone(o) THEN "<None>" ELSE Val(o)

\* Bounds of the model.
MaxElems == 2
MaxKeys == 2
MaxSteps == 2
MaxChunks == 4
MaxCoord == 2

\* A Python exception: its class and what it reports.  NoErr: nothing raised.
Exc(type, msg) == [type |-> type, msg |-> msg]
NoErr == Exc("none", "")
IsErr(e) == e.type # "none"

Min(S) == CHOOSE m \in S : \A n \in S : m <= n
Max(S) == CHOOSE m \in S : \A n \in S : m >= n

(***************************************************************************)
(* pydesktop.screen: the monitor table of mss.  sct.monitors[0] is the     *)
(* virtual screen spanning all monitors, sct.monitors[1:] the physical     *)
(* monitors.  A layout is the sequence of physical monitors.               *)
(***************************************************************************)
Monitor(l, t, w, h) == [left |-> l, top |-> t, width |-> w, height |-> h]

Combined(layout) ==
    LET ls == {layout[i].left : i \in 1..Len(layout)}
        ts == {layout[i].top : i \in 1..Len(layout)}
        rs == {layout[i].left + layout[i].width : i \in 1..Len(layout)}
        bs == {layout[i].top + layout[i].height : i \in 1..Len(layout)}
    IN  Monitor(Min(ls), Min(ts), Max(rs) - Min(ls), Max(bs) - Min(ts))

SctMonitors(layout) == <<Combined(layout)>> \o layout

\* A Python list subscript xs[i]: negative subscripts count from the end.
PyIndexOk(xs, i) == i < Len(xs) /\ i >= 0 - Len(xs)
PyIndex(xs, i) == IF i >= 0 THEN xs[i + 1] ELSE xs[Len(xs) + i + 1]

\* sct.monitors[mss_index] as _get_monitor reads it: its own test of the
\* upper end, then the list subscript.
MonitorAt(mons, mss_index) ==
    IF mss_index >= Len(mons) THEN [err |-> Exc("IndexError", "Screen not found"), mon |-> mons[1]]
    ELSE IF ~PyIndexOk(mons, mss_index)
         THEN [err |-> Exc("IndexError", "list index out of range"), mon |-> mons[1]]
    ELSE [err |-> NoErr, mon |-> PyIndex(mons, mss_index)]

\* _get_monitor(screen, sct): screen is Optional[int].
_get_monitor(screen, layout) ==
    IF IsNone(screen) THEN [err |-> NoErr, mon |-> Combined(layout)]
    ELSE MonitorAt(SctMonitors(layout), Val(screen) + 1)

\* get_screen_offset(screen): (left, top) of the monitor.
OffsetOf(m) == [err |-> m.err, x |-> m.mon.left, y |-> m.mon.top]
get_screen_offset(screen, layout) == OffsetOf(_get_monitor(screen, layout))

(***************************************************************************)
(* pydesktop.mouse: coordinate translation.                                *)
(***************************************************************************)
\* (x, y) moved by the offset the screen lookup gave, or the lookup's error.
ShiftBy(x, y, off) ==
    IF IsErr(off.err) THEN [err |-> off.err, x |-> x, y |-> y]
    ELSE [err |-> NoErr, x |-> x + off.x, y |-> y + off.y]
Plus(off) == off
Minus(off) == [off EXCEPT !.x = 0 - off.x, !.y = 0 - off.y]

\* _to_global(x, y, screen): x + offset_x, y + offset_y.
_to_global(x, y, screen, layout) ==
    IF IsNone(screen) THEN [err |-> NoErr, x |-> x, y |-> y]
    ELSE ShiftBy(x, y, Plus(get_screen_offset(screen, layout)))

\* _from_global(x, y, screen): x - offset_x, y - offset_y; the variant adds.
_from_globalAdding(gx, gy, screen, layout) ==
    IF IsNone(screen) THEN [err |-> NoErr, x |-> gx, y |-> gy]
    ELSE ShiftBy(gx, gy, Plus(get_screen_offset(screen, layout)))

_from_global(gx, gy, screen, layout) ==
    IF IsNone(screen) THEN [err |-> NoErr, x |-> gx, y |-> gy]
    ELSE ShiftBy(gx, gy, Minus(get_screen_offset(screen, layout)))

(***************************************************************************)
(* The primitive operations of pynput as events, in the order issued.      *)
(***************************************************************************)
Ev(op, a, b, s) == [op |-> op, a |-> a, b |-> b, s |-> s]
EvPosition(gx, gy) == Ev("position", gx, gy, "")
EvClick(button, count) == Ev("click", count, 0, button)
EvButtonPress(button) == Ev("button_press", 0, 0, button)
EvButtonRelease(button) == Ev("button_release", 0, 0, button)
EvScroll(dx, dy) == Ev("scroll", dx, dy, "")
EvKeyPress(k) == Ev("key_press", 0, 0, k)
EvKeyRelease(k) == Ev("key_release", 0, 0, k)
EvType(text) == Ev("type", 0, 0, text)
\* The operator callbacks of the executor (not input primitives).
EvAsk(question) == Ev("ask_user_callback", 0, 0, question)
EvTalk(text) == Ev("talk_to_user_callback", 0, 0, text)

PrimitiveOps == {"position", "click", "button_press", "button_release",
                 "scroll", "key_press", "key_release", "type"}
CallbackOps == {"ask_user_callback", "talk_to_user_callback"}

\* The outcome of a call: the events it issued and the error it raised.
Ran(events) == [err |-> NoErr, events |-> events]
Raised(err, events) == [err |-> err, events |-> events]

\* mouse.move_to(x, y, screen)
\* The events issued at the global point g, unless finding g raised.
At(g, events) == IF IsErr(g.err) THEN Raised(g.err, <<>>) ELSE Ran(<<EvPosition(g.x, g.y)>> \o events)

move_to(x, y, screen, layout) == At(_to_global(x, y, screen, layout), <<>>)

\* mouse.click(button, count, x, y, screen) with both x and y given.
click(button, count, x, y, screen, layout) ==
    At(_to_global(x, y, screen, layout), <<EvClick(button, count)>>)

click_at(x, y, screen, layout) == click("left", 1, x, y, screen, layout)
double_click_at(x, y, screen, layout) == click("left", 2, x, y, screen, layout)
right_click_at(x, y, screen, layout) == click("right", 1, x, y, screen, layout)

\* mouse.scroll(dx, dy)
scroll(dx, dy) ==
    (IF dy # 0 THEN <<EvScroll(0, dy)>> ELSE <<>>)
    \o (IF dx # 0 THEN <<EvScroll(dx, 0)>> ELSE <<>>)
scroll_up(amount) == scroll(0, amount)
scroll_down(amount) == scroll(0, 0 - amount)

\* Two calls in sequence: the second runs only if the first raised nothing.
Then(r1, r2) ==
    IF IsErr(r1.err) THEN r1 ELSE [err |-> r2.err, events |-> r1.events \o r2.events]

\* Python's int() of the rational n / d (d > 0): truncation toward zero.
Trunc(n, d) == IF n >= 0 THEN n \div d ELSE 0 - ((0 - n) \div d)

DragSteps == 10

\* mouse.drag_to(x, y, button="left", duration=0.5, steps=10, screen) from the
\* pointer position (start_x, start_y); x and y are the action's Optional x, y.
DragPath(start_x, start_y, gx, gy) ==
    [i \in 1..DragSteps |->
        EvPosition(Trunc(start_x * DragSteps + (gx - start_x) * i, DragSteps),
                   Trunc(start_y * DragSteps + (gy - start_y) * i, DragSteps))]
DragFrom(x, y, off, start_x, start_y) ==
    IF IsErr(off.err) THEN Raised(off.err, <<>>)
    ELSE IF IsNone(x) \/ IsNone(y)
         THEN Raised(Exc("TypeError", "unsupported operand type(s) for +"), <<>>)
    ELSE Ran(<<EvButtonPress("left")>>
             \o DragPath(start_x, start_y, Val(x) + off.x, Val(y) + off.y)
             \o <<EvButtonRelease("left")>>)
drag_to(x, y, screen, layout, start_x, start_y) ==
    DragFrom(x, y, get_screen_offset(screen, layout), start_x, start_y)

(***************************************************************************)
(* pydesktop.keyboard.  Key names of the model and str.lower() on them.    *)
(***************************************************************************)
KeyNames == {"ctrl", "Control", "c", "V", "bogus"}
Lower(k) == CASE k = "Control" -> "control"
              [] k = "V" -> "v"
              [] k = "UP" -> "up"
              [] OTHER -> k
SingleChars == {"c", "V"}

\* The entries of _KEY_MAP the model's key names can hit.
KEY_MAP_KEYS == {"ctrl", "control", "shift"}
KEY_MAP(k) == CASE k = "ctrl" -> "Key.ctrl"
                [] k = "control" -> "Key.ctrl"
                [] k = "shift" -> "Key.shift"

_parse_key(key) ==
    IF Lower(key) \in KEY_MAP_KEYS THEN [err |-> NoErr, key |-> KEY_MAP(Lower(key))]
    ELSE IF key \in SingleChars THEN [err |-> NoErr, key |-> key]
    ELSE [err |-> Exc("ValueError", "Unknown key"), key |-> ""]

\* keyboard.press(key): press and release.
press(key) ==
    LET k == _parse_key(key) IN
    IF IsErr(k.err) THEN Raised(k.err, <<>>)
    ELSE Ran(<<EvKeyPress(k.key), EvKeyRelease(k.key)>>)

Reverse(s) == [i \in 1..Len(s) |-> s[Len(s) + 1 - i]]

\* keyboard.hotkey(*keys): parse all, press in order, release in reverse order.
hotkeyForwardRelease(keys) ==
    LET parsed == [i \in 1..Len(keys) |-> _parse_key(keys[i])] IN
    IF \E i \in 1..Len(keys) : IsErr(parsed[i].err)
    THEN Raised(Exc("ValueError", "Unknown key"), <<>>)
    ELSE Ran([i \in 1..Len(keys) |-> EvKeyPress(parsed[i].key)]
             \o [i \in 1..Len(keys) |-> EvKeyRelease(parsed[i].key)])

hotkey(keys) ==
    LET parsed == [i \in 1..Len(keys) |-> _parse_key(keys[i])]
        parsed_keys == [i \in 1..Len(keys) |-> parsed[i].key]
    IN  IF \E i \in 1..Len(keys) : IsErr(parsed[i].err)
        THEN Raised(Exc("ValueError", "Unknown key"), <<>>)
        ELSE Ran([i \in 1..Len(keys) |-> EvKeyPress(parsed_keys[i])]
                 \o [i \in 1..Len(keys) |-> EvKeyRelease(Reverse(parsed_keys)[i])])

\* keyboard.type_text(text): text is the action's Optional text.
type_text(text) ==
    IF IsNone(text) THEN Raised(Exc("TypeError", "'NoneType' object is not iterable"), <<>>)
    ELSE Ran(<<EvType(Val(text))>>)

(***************************************************************************)
(* agent.models: UIElement (index and center are what the agent reads) and *)
(* Action.                                                                 *)
(***************************************************************************)
UIElement(index, cx, cy) == [index |-> index, center |-> <<cx, cy>>]

NoAction ==
    [action_type |-> "<None>", index |-> None, x |-> None, y |-> None,
     text |-> None, direction |-> None, key |-> None, keys |-> None,
     goal_status |-> None, question |-> None, user_response |-> None,
     screen |-> None]
Action(action_type) == [NoAction EXCEPT !.action_type = action_type]

(***************************************************************************)
(* agent.executor.ActionExecutor                                           *)
(***************************************************************************)
SCROLL_AMOUNT == 5

\* _get_screen(action): the action's screen if it has one, else self.screen.
\* The variant reads "action.screen or self.screen": screen 0 counts as absent.
_get_screenOrDefault(action, screen) ==
    IF ~IsNone(action.screen) /\ action.screen # Some(0) THEN action.screen ELSE Some(screen)

_get_screen(action, screen) ==
    IF ~IsNone(action.screen) THEN action.screen ELSE Some(screen)

\* _get_coords(action, ui_elements); the variant tests only the upper end of
\* the range, so a negative index subscripts the list from its end.
_get_coordsNoLowerBound(action, ui_elements) ==
    IF ~IsNone(action.index)
    THEN IF Val(action.index) < Len(ui_elements) /\ PyIndexOk(ui_elements, Val(action.index))
         THEN [err |-> NoErr,
               x |-> PyIndex(ui_elements, Val(action.index)).center[1],
               y |-> PyIndex(ui_elements, Val(action.index)).center[2]]
         ELSE [err |-> Exc("ValueError", "Invalid element index"), x |-> 0, y |-> 0]
    ELSE IF ~IsNone(action.x) /\ ~IsNone(action.y)
         THEN [err |-> NoErr, x |-> Val(action.x), y |-> Val(action.y)]
         ELSE [err |-> Exc("ValueError", "Action requires either index or x,y coordinates"),
               x |-> 0, y |-> 0]

\* A second variant: explicit x, y take precedence over the index.
_get_coordsPrefersXY(action, ui_elements) ==
    IF ~IsNone(action.x) /\ ~IsNone(action.y)
    THEN [err |-> NoErr, x |-> Val(action.x), y |-> Val(action.y)]
    ELSE IF ~IsNone(action.index)
    THEN IF 0 <= Val(action.index) /\ Val(action.index) < Len(ui_elements)
         THEN [err |-> NoErr,
               x |-> ui_elements[Val(action.index) + 1].center[1],
               y |-> ui_elements[Val(action.index) + 1].center[2]]
         ELSE [err |-> Exc("ValueError", "Invalid element index"), x |-> 0, y |-> 0]
    ELSE [err |-> Exc("ValueError", "Action requires either index or x,y coordinates"),
          x |-> 0, y |-> 0]

_get_coords(action, ui_elements) ==
    IF ~IsNone(action.index)
    THEN IF 0 <= Val(action.index) /\ Val(action.index) < Len(ui_elements)
         THEN [err |-> NoErr,
               x |-> ui_elements[Val(action.index) + 1].center[1],
               y |-> ui_elements[Val(action.index) + 1].center[2]]
         ELSE [err |-> Exc("ValueError", "Invalid element index"), x |-> 0, y |-> 0]
    ELSE IF ~IsNone(action.x) /\ ~IsNone(action.y)
         THEN [err |-> NoErr, x |-> Val(action.x), y |-> Val(action.y)]
         ELSE [err |-> Exc("ValueError", "Action requires either index or x,y coordinates"),
               x |-> 0, y |-> 0]

\* What execute hands back: ret is None when it raised, else <<continue>>.
Finish(r, ur) ==
    [ret |-> IF IsErr(r.err) THEN None ELSE Some(TRUE),
     err |-> r.err, events |-> r.events, user_response |-> ur]

\* x, y = self._get_coords(...) and then the primitive at (x, y): nothing is
\* issued when _get_coords raised.
ClickTarget(c, screen, layout) ==
    IF IsErr(c.err) THEN Raised(c.err, <<>>) ELSE click_at(c.x, c.y, screen, layout)
DoubleClickTarget(c, screen, layout) ==
    IF IsErr(c.err) THEN Raised(c.err, <<>>) ELSE double_click_at(c.x, c.y, screen, layout)
RightClickTarget(c, screen, layout) ==
    IF IsErr(c.err) THEN Raised(c.err, <<>>) ELSE right_click_at(c.x, c.y, screen, layout)
MoveTarget(c, screen, layout) ==
    IF IsErr(c.err) THEN Raised(c.err, <<>>) ELSE move_to(c.x, c.y, screen, layout)

\* The scroll of a lower-cased direction; none for any other word.
Wheel(direction) ==
    IF direction = "up" THEN scroll_up(SCROLL_AMOUNT)
    ELSE IF direction = "down" THEN scroll_down(SCROLL_AMOUNT)
    ELSE IF direction = "left" THEN scroll(0 - SCROLL_AMOUNT, 0)
    ELSE IF direction = "right" THEN scroll(SCROLL_AMOUNT, 0)
    ELSE <<>>

\* The scroll branch: direction.lower(), the optional move, the scroll.
ScrollBranch(action, ui_elements, screen, layout) ==
    IF IsNone(action.direction)
    THEN Raised(Exc("AttributeError", "'NoneType' object has no attribute 'lower'"), <<>>)
    ELSE Then(IF ~IsNone(action.index)
              THEN MoveTarget(_get_coords(action, ui_elements), screen, layout)
              ELSE Ran(<<>>),
              Ran(Wheel(Lower(Val(action.direction)))))

\* The drag branch: move to the source, drag to the action's own x, y.
DragAfter(m, action, screen, layout) ==
    IF IsErr(m.err) THEN m
    ELSE Then(m, drag_to(action.x, action.y, screen, layout, m.events[1].a, m.events[1].b))
DragBranch(action, ui_elements, screen, layout) ==
    DragAfter(MoveTarget(_get_coords(action, ui_elements), screen, layout),
              action, screen, layout)

\* The pointer and keyboard branches of execute (everything after `wait`).
Dispatch(action, ui_elements, screen, layout) ==
    LET action_type == action.action_type IN
    IF action_type = "click"
    THEN ClickTarget(_get_coords(action, ui_elements), screen, layout)
    ELSE IF action_type = "double_click"
         THEN DoubleClickTarget(_get_coords(action, ui_elements), screen, layout)
    ELSE IF action_type = "right_click"
         THEN RightClickTarget(_get_coords(action, ui_elements), screen, layout)
    ELSE IF action_type = "input_text"
         THEN Then(IF ~IsNone(action.index)
                   THEN ClickTarget(_get_coords(action, ui_elements), screen, layout)
                   ELSE Ran(<<>>),
                   type_text(action.text))
    ELSE IF action_type = "type" THEN type_text(action.text)
    ELSE IF action_type = "press_key"
         THEN IF IsNone(action.key)
              THEN Raised(Exc("AttributeError", "'NoneType' object has no attribute 'lower'"), <<>>)
              ELSE press(Val(action.key))
    ELSE IF action_type = "hotkey"
         THEN IF IsNone(action.keys)
              THEN Raised(Exc("TypeError", "argument after * must be an iterable"), <<>>)
              ELSE hotkey(Val(action.keys))
    ELSE IF action_type = "scroll" THEN ScrollBranch(action, ui_elements, screen, layout)
    ELSE IF action_type = "drag" THEN DragBranch(action, ui_elements, screen, layout)
    ELSE Ran(<<>>)

\* What execute hands back when it returns; continue is always True in the
\* variant (a terminal kind that forgets to return False).
ReturnedAlwaysContinue(ret, events, ur) ==
    [ret |-> Some(TRUE), err |-> NoErr, events |-> events, user_response |-> ur]

Returned(ret, events, ur) ==
    [ret |-> Some(ret), err |-> NoErr, events |-> events, user_response |-> ur]

\* The ask_user branch; the variant calls the callback without testing that
\* one is attached.
AskUserBranchUnguarded(action, ask_cb, reply) ==
    LET question == IF IsNone(action.question) \/ action.question = Some("")
                    THEN "Agent needs input" ELSE Val(action.question)
    IN  IF ask_cb THEN Returned(TRUE, <<EvAsk(question)>>, Some(reply))
        ELSE [ret |-> None, err |-> Exc("TypeError", "'NoneType' object is not callable"),
              events |-> <<>>, user_response |-> action.user_response]

\* A second variant: the reply is not stored in the action.
AskUserBranchReplyDropped(action, ask_cb, reply) ==
    LET question == IF IsNone(action.question) \/ action.question = Some("")
                    THEN "Agent needs input" ELSE Val(action.question)
    IN  IF ask_cb THEN Returned(TRUE, <<EvAsk(question)>>, action.user_response)
        ELSE Returned(TRUE, <<>>, action.user_response)

AskUserBranch(action, ask_cb, reply) ==
    LET question == IF IsNone(action.question) \/ action.question = Some("")
                    THEN "Agent needs input" ELSE Val(action.question)
    IN  IF ask_cb THEN Returned(TRUE, <<EvAsk(question)>>, Some(reply))
        ELSE Returned(TRUE, <<>>, action.user_response)

\* execute(action, ui_elements) of an executor configured with `screen`, with
\* or without the two callbacks; `reply` is what the ask_user callback returns.
execute(action, ui_elements, screen, layout, ask_cb, talk_cb, reply) ==
    LET action_type == action.action_type
        ur == action.user_response
        told == IF talk_cb THEN <<EvTalk(Str(action.text))>> ELSE <<>>
    IN
    IF action_type = "status" THEN Returned(FALSE, <<>>, ur)
    ELSE IF action_type = "answer" THEN Returned(FALSE, told, ur)
    ELSE IF action_type = "talk_to_user" THEN Returned(TRUE, told, ur)
    ELSE IF action_type = "ask_user" THEN AskUserBranch(action, ask_cb, reply)
    ELSE IF action_type = "wait" THEN Returned(TRUE, <<>>, ur)
    ELSE Finish(Dispatch(action, ui_elements, _get_screen(action, screen), layout), ur)

(***************************************************************************)
(* agent.core.ComputerUseAgent._parse_response.  A response is a sequence  *)
(* of tokens: the tag "Action:", white space, the two braces, prose, and   *)
(* brace-free pieces of JSON: whole member lists (bodies), and the opening *)
(* and closing of a member list whose last value is a string literal,      *)
(* which may hold any prose, white space, tag or brace in between.         *)
(***************************************************************************)
TAG == "Action:"
WS == " "
LB == "{"
RB == "}"
PROSE == "I will"
BODY_CLICK == "\"action_type\": \"click\", \"index\": 0"
BODY_CLICK2 == "\"action_type\": \"click\", \"index\": 2"
BODY_ANSWER == "\"action_type\": \"answer\", \"text\": \"42\""
BODY_ASK == "\"action_type\": \"ask_user\", \"question\": \"which?\""
BODY_STATUS == "\"action_type\": \"status\", \"goal_status\": \"complete\""
BODY_NOTE == "\"note\": \"ok\""
STR_OPEN == "\"action_type\": \"type\", \"text\": \""
STR_CLOSE == "\""
Bodies == {BODY_CLICK, BODY_CLICK2, BODY_ANSWER, BODY_ASK, BODY_STATUS, BODY_NOTE}
StringChars == {TAG, WS, LB, RB, PROSE}

FirstOf(S) == IF S = {} THEN 0 ELSE Min(S)

\* The position after the white space that starts at j.
SkipWs(resp, j) == Min({k \in j..(Len(resp) + 1) : k = Len(resp) + 1 \/ resp[k] # WS})

\* re.search(r'Action:\s*(\{.+?\})', response, re.DOTALL): the leftmost tag
\* followed by white space, a brace, at least one character and, lazily,
\* the first closing brace after it.  [from, to] of group 1, or from = 0.
TaggedEnd(resp, j) == FirstOf({k \in (j + 2)..Len(resp) : resp[k] = RB})
TaggedStarts(resp) ==
    {i \in 1..Len(resp) :
        /\ resp[i] = TAG
        /\ LET j == SkipWs(resp, i + 1) IN
           j <= Len(resp) /\ resp[j] = LB /\ TaggedEnd(resp, j) # 0}
action_match(resp) ==
    LET i == FirstOf(TaggedStarts(resp)) IN
    IF i = 0 THEN [from |-> 0, to |-> 0]
    ELSE [from |-> SkipWs(resp, i + 1), to |-> TaggedEnd(resp, SkipWs(resp, i + 1))]

\* re.search(r'\{[^{}]+\}', response): the leftmost brace pair with at least
\* one character and no brace in between.
ScanEnd(resp, i) ==
    FirstOf({k \in (i + 2)..Len(resp) :
                resp[k] = RB /\ \A m \in (i + 1)..(k - 1) : resp[m] \notin {LB, RB}})
json_match(resp) ==
    LET i == FirstOf({i \in 1..Len(resp) : resp[i] = LB /\ ScanEnd(resp, i) # 0}) IN
    IF i = 0 THEN [from |-> 0, to |-> 0] ELSE [from |-> i, to |-> ScanEnd(resp, i)]

\* json.loads of a text that starts with "{" and ends with "}": the dict it
\* decodes to, named by its member list, or JSONDecodeError.
NotWs(t) == t # WS
json_loads(text) ==
    LET inner == SubSeq(text, 2, Len(text) - 1)
        solid == SelectSeq(inner, NotWs)
        open == FirstOf({k \in 1..Len(inner) : inner[k] # WS})
        close == IF solid = <<>> THEN 0 ELSE Max({k \in 1..Len(inner) : inner[k] # WS})
    IN  IF solid = <<>> THEN [err |-> NoErr, dict |-> "{}"]
        ELSE IF Len(solid) = 1 /\ solid[1] \in Bodies THEN [err |-> NoErr, dict |-> solid[1]]
        ELSE IF /\ inner[open] = STR_OPEN /\ inner[close] = STR_CLOSE /\ open < close
                /\ \A k \in (open + 1)..(close - 1) : inner[k] \in StringChars
             THEN [err |-> NoErr, dict |-> STR_OPEN]
        ELSE [err |-> Exc("JSONDecodeError", "Expecting value"), dict |-> "{}"]

\* Action.from_dict(d): every field by d.get, None when the key is absent.
from_dict(d) ==
    IF d = BODY_CLICK THEN [NoAction EXCEPT !.action_type = "click", !.index = Some(0)]
    ELSE IF d = BODY_CLICK2 THEN [NoAction EXCEPT !.action_type = "click", !.index = Some(2)]
    ELSE IF d = BODY_ANSWER THEN [NoAction EXCEPT !.action_type = "answer", !.text = Some("42")]
    ELSE IF d = BODY_ASK
         THEN [NoAction EXCEPT !.action_type = "ask_user", !.question = Some("which?")]
    ELSE IF d = BODY_STATUS
         THEN [NoAction EXCEPT !.action_type = "status", !.goal_status = Some("complete")]
    ELSE IF d = STR_OPEN
         THEN [NoAction EXCEPT !.action_type = "type", !.text = Some("<string literal>")]
    ELSE NoAction

\* _parse_response(response): the action, or the error raised.
_parse_response(response) ==
    LET tagged == action_match(response)
        any == json_match(response)
        text == IF tagged.from # 0 THEN SubSeq(response, tagged.from, tagged.to)
                ELSE SubSeq(response, any.from, any.to)
    IN  IF tagged.from = 0 /\ any.from = 0
        THEN [err |-> Exc("ValueError", "Could not find action JSON in response"),
              action |-> NoAction]
        ELSE LET d == json_loads(text) IN
             IF IsErr(d.err) THEN [err |-> d.err, action |-> NoAction]
             ELSE [err |-> NoErr, action |-> from_dict(d.dict)]

(***************************************************************************)
(* The inputs the environment can supply.                                  *)
(***************************************************************************)
\* Monitor layouts: one monitor; a second to the right; a second to the
\* left of and below the primary's origin (negative global coordinates).
Layouts ==
    { <<Monitor(0, 0, 1920, 1080)>>,
      <<Monitor(0, 0, 1920, 1080), Monitor(1920, 0, 1280, 1024)>>,
      <<Monitor(0, 0, 1920, 1080), Monitor(-1280, 200, 1280, 1024)>> }

\* What perception returns: the element at list position p (from 0) has a
\* fixed center; its index field is p (as the bundled server numbers them)
\* or 2p (a service that numbers with gaps).
CenterX(p) == IF p = 0 THEN 50 ELSE IF p = 1 THEN 500 ELSE 100 * p
CenterY(p) == IF p = 0 THEN 60 ELSE IF p = 1 THEN 400 ELSE 100 * p + 7
ElementList(n, stride) == [p \in 1..n |-> UIElement(stride * (p - 1), CenterX(p - 1), CenterY(p - 1))]
ElementLists == {ElementList(n, stride) : n \in 0..MaxElems, stride \in {1, 2}}

IndexOpts == {None} \cup {Some(i) : i \in (0 - 1)..MaxElems}
XOpts == {None, Some(7)}
YOpts == {None, Some(8)}
ScreenOpts == {None, Some(0), Some(1), Some(2)}
TextOpts == {None, Some("hi")}
DirectionOpts == {None, Some("up"), Some("down"), Some("left"), Some("right"),
                  Some("UP"), Some("diagonal")}
KeyOpts == {None} \cup {Some(k) : k \in KeyNames}
SeqsUpTo(S, n) == UNION {[1..m -> S] : m \in 0..n}
KeysOpts == {None} \cup {Some(ks) : ks \in SeqsUpTo(KeyNames, MaxKeys)}

PointerKinds == {"click", "double_click", "right_click", "drag"}
TerminalKinds == {"status", "answer"}
RecognizedKinds ==
    {"click", "double_click", "right_click", "input_text", "type", "press_key",
     "hotkey", "scroll", "drag", "wait", "answer", "ask_user", "talk_to_user",
     "status"}

\* The actions a decoded model response can hold, kind by kind: the fields
\* the kind reads over all their options, and a stray index on the others.
ExecActions ==
    {[Action(k) EXCEPT !.index = i, !.x = x, !.y = y, !.screen = s] :
        k \in PointerKinds, i \in IndexOpts, x \in XOpts, y \in YOpts, s \in ScreenOpts}
    \* (input_text and scroll: x and y both absent or both present)
    \cup {[Action("input_text") EXCEPT !.index = i, !.x = x, !.y = x, !.screen = s, !.text = t] :
        i \in IndexOpts, x \in XOpts, s \in ScreenOpts, t \in TextOpts}
    \cup {[Action("scroll") EXCEPT !.index = i, !.x = x, !.y = x, !.screen = s, !.direction = d] :
        i \in IndexOpts, x \in XOpts, s \in ScreenOpts, d \in DirectionOpts}
    \cup {[Action("type") EXCEPT !.index = i, !.text = t] : i \in IndexOpts, t \in TextOpts}
    \cup {[Action("press_key") EXCEPT !.index = i, !.key = k] : i \in {None, Some(MaxElems)}, k \in KeyOpts}
    \cup {[Action("hotkey") EXCEPT !.index = i, !.keys = ks] : i \in {None, Some(MaxElems)}, ks \in KeysOpts}
    \cup {[Action(k) EXCEPT !.index = i, !.text = t] :
        k \in {"answer", "talk_to_user"}, i \in {None, Some(MaxElems)}, t \in TextOpts}
    \cup {[Action("ask_user") EXCEPT !.index = i, !.question = q] :
        i \in {None, Some(MaxElems)}, q \in {None, Some(""), Some("which?")}}
    \cup {[Action("status") EXCEPT !.index = i, !.goal_status = g] :
        i \in {None, Some(MaxElems)}, g \in {None, Some("complete"), Some("infeasible")}}
    \cup {[Action(k) EXCEPT !.index = i] :
        k \in {"wait", "fly", "<None>"}, i \in {None, Some(MaxElems)}}

\* What a synchronous ask_user callback can return.
Replies == {"", "yes"}

\* What the user can type into the question dialog; cancelling it gives "".
DialogTexts == {"", "yes"}

\* MAX_STEPS of ComputerUseAgent.
MAX_STEPS == 50

\* What the drivers are run against: the layout with a monitor at negative
\* global coordinates, element lists numbered without and with gaps, and the
\* responses of a model that tags its action, answers with a bare object,
\* or answers in prose only.
LoopLayout == <<Monitor(0, 0, 1920, 1080), Monitor(-1280, 200, 1280, 1024)>>
LoopElementLists == {ElementList(2, 1), ElementList(2, 2), ElementList(3, 2)}
Tagged(body) == <<PROSE, TAG, WS, LB, body, RB>>
LoopResponses ==
    {Tagged(b) : b \in {BODY_CLICK, BODY_CLICK2, BODY_ANSWER, BODY_ASK, BODY_STATUS}}
    \cup {<<LB, BODY_NOTE, RB>>, <<PROSE>>}

(***************************************************************************)
(* The decision prompt.  A text is the sequence of its pieces; in a        *)
(* template the pieces "{{" and "}}" are the escaped braces of str.format  *)
(* and the piece "{screen}" is the replacement field of that name.         *)
(***************************************************************************)
\* The MULTI-SCREEN part of SYSTEM_PROMPT, which names the current screen.
SYSTEM_PROMPT ==
    <<"MULTI-SCREEN: - You are currently operating on screen ",
      "{{", "screen", "}}", " (0=primary). ",
      "- If \"screen\" is omitted, the current screen (",
      "{{", "screen", "}}", ") is used.">>

\* template.format(screen=value): "{{" gives "{", "}}" gives "}", the field
\* "{screen}" gives str(value), every other piece stays.
str_format(template, value) ==
    [i \in 1..Len(template) |->
        IF template[i] = "{{" THEN "{"
        ELSE IF template[i] = "}}" THEN "}"
        ELSE IF template[i] = "{screen}" THEN ToString(value)
        ELSE template[i]]

\* history_str and elements_str of _build_prompt; "if action and
\* action.user_response" is false for None and for the empty reply.
history_str(history) ==
    IF history = <<>> THEN <<"(No actions taken yet)">>
    ELSE [i \in 1..Len(history) |->
            "Step " \o ToString(i) \o ": " \o ToString(history[i].summary)
              \o (IF IsNone(history[i].action.user_response)
                     \/ history[i].action.user_response = Some("") THEN ""
                  ELSE " [User responded: " \o Val(history[i].action.user_response) \o "]")]
elements_str(ui_elements) ==
    [i \in 1..Len(ui_elements) |->
        "Element " \o ToString(ui_elements[i].index)
           \o ": center=" \o ToString(ui_elements[i].center)]

\* _build_prompt(ui_elements), with self.history and self.screen as arguments.
_build_prompt(ui_elements, history, screen) ==
    str_format(SYSTEM_PROMPT, screen)
        \o <<"CURRENT GOAL: ", "HISTORY:">> \o history_str(history)
        \o <<"DETECTED UI ELEMENTS:">> \o elements_str(ui_elements)
        \o <<"Now analyze the screenshot and choose an action.", "Your Answer:">>

(***************************************************************************)
(* State.  The agent and its host:                                         *)
(*   driver        "run": ComputerUseAgent.run; "gui": AgentWorker.run     *)
(*   agent_screen  self.screen of the agent and of its executor            *)
(*   layout        the monitors present                                    *)
(* what the program last handed out:                                       *)
(*   screens       the list the last get_all_screens() returned            *)
(*   prompt        the prompt of the last decision call                    *)
(*   ask_cb, talk_cb   whether the executor's callbacks are attached       *)
(*   max_steps     the step budget handed to the driver                    *)
(* the worker's position and the locals of the step in progress:           *)
(*   pc, step_num, ui_elements, response, action, is_terminal, summary     *)
(*   events        the primitive and callback calls of the step so far     *)
(*   error         the exception that ended the run, if one did            *)
(*   calls         the calls the steps of the run have made, in order      *)
(* what a run accumulates:                                                 *)
(*   history       agent.history                                           *)
(*   result        the StepResult the last completed step returned         *)
(*   results       the list run() returns                                  *)
(*   finished      the (success, message) reports of finished_signal       *)
(* and the fields the worker shares with the front end's thread:           *)
(*   _stop_flag, _user_response, _response_event                           *)
(*   main_pc       where the front end's thread is                         *)
(*   dialog        the question dialog of on_ask_user                      *)
(*   ask_signal    ask_user_signal emissions queued for the front end      *)
(*   worker        whether the main window still holds its worker          *)
(***************************************************************************)
VARIABLES driver, agent_screen, layout, ask_cb, talk_cb, max_steps,
          screens, prompt,
          pc, step_num, ui_elements, response, action, is_terminal, summary,
          events, error, calls,
          history, result, results, finished,
          _stop_flag, _user_response, _response_event,
          main_pc, dialog, ask_signal, worker

cfgVars == <<driver, agent_screen, layout, ask_cb, talk_cb, max_steps>>
ioVars == <<screens, prompt>>
stepVars == <<pc, step_num, ui_elements, response, action, is_terminal, summary,
              events, error, calls>>
runVars == <<history, result, results, finished>>
sharedVars == <<_stop_flag, _user_response, _response_event>>
frontVars == <<main_pc, dialog, ask_signal, worker>>
vars == <<cfgVars, ioVars, stepVars, runVars, sharedVars, frontVars>>

\* The locals of a step before the step has set them.
InitLocals ==
    /\ ui_elements = <<>>
    /\ response = <<>>
    /\ action = NoAction
    /\ is_terminal = FALSE
    /\ summary = 0
    /\ events = <<>>
    /\ error = NoErr
    /\ calls = <<>>
\* ComputerUseAgent.__init__, and a driver that has returned nothing yet.
InitRun ==
    /\ history = <<>>
    /\ result = None
    /\ results = <<>>
    /\ finished = <<>>
\* AgentWorker.__init__
InitShared ==
    /\ _stop_flag = FALSE
    /\ _user_response = None
    /\ _response_event = FALSE
\* The front end after start_agent (it holds a worker), or no front end.
InitFront ==
    /\ main_pc = "idle"
    /\ dialog = None
    /\ ask_signal = <<>>
    /\ worker = (driver = "gui")

\* An exception leaving step(): run() re-raises it to its caller; the
\* worker's outer handler reports finished_signal(False, str(e)).  The
\* variant is a handler that logs the error and reports the run as done.
RaiseReportedDone(e) ==
    /\ error' = e
    /\ IF driver = "gui"
       THEN /\ pc' = "finished"
            /\ finished' = Append(finished, [success |-> TRUE, message |-> "Task completed"])
       ELSE /\ pc' = "returned"
            /\ UNCHANGED finished

\* A second variant: a driver that logs the error and goes on with the loop.
RaiseAndContinue(e) ==
    /\ error' = e
    /\ pc' = "loop"
    /\ UNCHANGED finished

Raise(e) ==
    /\ error' = e
    /\ IF driver = "gui"
       THEN /\ pc' = "finished"
            /\ finished' = Append(finished, [success |-> FALSE, message |-> e.msg])
       ELSE /\ pc' = "raised"
            /\ UNCHANGED finished

(***************************************************************************)
(* Step 4 of ComputerUseAgent.step: self.executor.execute(action,          *)
(* ui_elements), with a callback that answers at once (the worker's        *)
(* blocking _ask_user is taken apart below).                               *)
(***************************************************************************)
Execute ==
    /\ pc = "execute"
    /\ ~(driver = "gui" /\ action.action_type = "ask_user")
    /\ calls' = Append(calls, "execute")
    /\ \E reply \in Replies :
       \E r \in {execute(action, ui_elements, agent_screen, layout, ask_cb, talk_cb, reply)} :
         /\ events' = r.events
         /\ action' = [action EXCEPT !.user_response = r.user_response]
         /\ IF IsErr(r.err)
            THEN /\ Raise(r.err)
                 /\ UNCHANGED is_terminal
            ELSE /\ is_terminal' = ~Val(r.ret)
                 /\ pc' = "settle"
                 /\ UNCHANGED <<error, finished>>
    /\ UNCHANGED <<cfgVars, ioVars, step_num, ui_elements, response, summary,
                   history, result, results, sharedVars, frontVars>>

(***************************************************************************)
(* SpecExec: execute as a function of its inputs.  The agent stands at     *)
(* step 4 of its first step with any action a response can decode to, any  *)
(* element list and any monitor layout its screen is part of.              *)
(***************************************************************************)
InitExec ==
    /\ driver = "run"
    /\ layout \in Layouts
    /\ screens = <<>>
    /\ prompt = <<>>
    /\ agent_screen \in 0..(Len(layout) - 1)
    /\ ask_cb \in BOOLEAN
    /\ talk_cb \in BOOLEAN
    /\ max_steps = MaxSteps
    /\ pc = "execute"
    /\ step_num = 0
    /\ ui_elements \in ElementLists
    /\ response = <<>>
    /\ action \in ExecActions
    /\ is_terminal = FALSE
    /\ summary = 0
    /\ events = <<>>
    /\ error = NoErr
    /\ calls = <<>>
    /\ InitRun
    /\ InitShared
    /\ InitFront

NextExec == Execute

SpecExec == InitExec /\ [][NextExec]_vars

(***************************************************************************)
(* The two drivers of the step loop: ComputerUseAgent.run, and              *)
(* AgentWorker.run with the front end's thread beside it.                  *)
(***************************************************************************)
\* range(max_steps) of the driver: run() replaces a falsy max_steps by
\* MAX_STEPS, the worker takes the configured number as it is.
StepBudget == IF driver = "run" /\ max_steps = 0 THEN MAX_STEPS ELSE max_steps

\* done of step(): line "done = is_terminal or action.action_type == ..."; the
\* variant looks at the kind only.
DoneStatusOnly(terminal, a) == a.action_type = "status"

Done(terminal, a) == terminal \/ a.action_type = "status"

\* "if result.done:" of the drivers; the variant never leaves the loop early.
LoopNeverEnds(r) == FALSE

LoopEnds(r) == r.done

\* finished_signal.emit(success, message)
Emit(success, message) ==
    finished' = Append(finished, [success |-> success, message |-> message])

\* What an agent object that has run before still holds when run() is
\* called again: the history of the earlier run (here one that used up a
\* budget of one step waiting).  The worker builds a new agent for every run.
EarlierHistory == <<[action |-> [NoAction EXCEPT !.action_type = "wait"], summary |-> 1]>>

\* The variant is a driver that does not call reset().
SetupWithoutReset ==
    /\ pc = "setup"
    /\ calls' = <<>>
    /\ UNCHANGED history
    /\ IF driver = "run"
       THEN /\ pc' = "loop"
            /\ UNCHANGED finished
       ELSE \E outcome \in {"ok", "no_url", "unavailable"} :
              /\ pc' = IF outcome = "ok" THEN "loop" ELSE "finished"
              /\ IF outcome = "no_url" THEN Emit(FALSE, "OmniParser URL not set")
                 ELSE IF outcome = "unavailable" THEN Emit(FALSE, "OmniParser server unavailable")
                 ELSE UNCHANGED finished
    /\ UNCHANGED <<cfgVars, ioVars, step_num, ui_elements, response, action, is_terminal,
                   summary, events, error, result, results, sharedVars, frontVars>>

\* Before the loop.  run(): self.reset().  The worker: the LLM client, the
\* OmniParser URL and availability checks, the agent, agent.reset().
Setup ==
    /\ pc = "setup"
    /\ calls' = <<>>
    /\ history' = <<>>
    /\ IF driver = "run"
       THEN /\ pc' = "loop"
            /\ UNCHANGED finished
       ELSE \E outcome \in {"ok", "no_url", "unavailable"} :
              /\ pc' = IF outcome = "ok" THEN "loop" ELSE "finished"
              /\ IF outcome = "no_url" THEN Emit(FALSE, "OmniParser URL not set")
                 ELSE IF outcome = "unavailable" THEN Emit(FALSE, "OmniParser server unavailable")
                 ELSE UNCHANGED finished
    /\ UNCHANGED <<cfgVars, ioVars, step_num, ui_elements, response, action, is_terminal,
                   summary, events, error, result, results, sharedVars, frontVars>>

\* The variant is a worker loop without the stop test.
LoopHeadWithoutStopTest ==
    /\ pc = "loop"
    /\ IF step_num >= StepBudget
       THEN /\ IF driver = "run"
               THEN pc' = "returned" /\ UNCHANGED finished
               ELSE pc' = "finished" /\ Emit(FALSE, "Max steps reached")
       ELSE /\ step_num < MaxSteps
            /\ pc' = "observe"
            /\ UNCHANGED finished
    /\ UNCHANGED <<cfgVars, ioVars, calls, step_num, ui_elements, response, action, is_terminal,
                   summary, events, error, history, result, results,
                   sharedVars, frontVars>>

\* The head of "for step_num in range(max_steps)": the loop's else branch
\* when the range is used up, the worker's stop test, or the next step.
LoopHead ==
    /\ pc = "loop"
    /\ IF step_num >= StepBudget
       THEN /\ IF driver = "run"
               THEN pc' = "returned" /\ UNCHANGED finished
               ELSE pc' = "finished" /\ Emit(FALSE, "Max steps reached")
       ELSE IF driver = "gui" /\ _stop_flag
       THEN /\ pc' = "finished"
            /\ Emit(FALSE, "Stopped by user")
       ELSE /\ step_num < MaxSteps
            /\ pc' = "observe"
            /\ UNCHANGED finished
    /\ UNCHANGED <<cfgVars, ioVars, calls, step_num, ui_elements, response, action, is_terminal,
                   summary, events, error, history, result, results,
                   sharedVars, frontVars>>

\* A call of the step that can fail with an error of its own and changes
\* nothing of the agent otherwise.
Call(from, to, failure) ==
    /\ pc = from
    /\ \/ /\ pc' = to
          /\ UNCHANGED <<error, finished>>
       \/ Raise(failure)

\* step 1: before_screenshot = self._get_screenshot()
Observe ==
    /\ Call("observe", "perceive", Exc("ScreenShotError", "screenshot failed"))
    /\ calls' = Append(calls, "screenshot")
    /\ events' = <<>>
    /\ UNCHANGED <<cfgVars, ioVars, step_num, ui_elements, response, action, is_terminal,
                   summary, history, result, results, sharedVars, frontVars>>

\* step 1: labeled_img, ui_elements = self.omniparser.parse(before_screenshot)
Perceive ==
    /\ pc = "perceive"
    /\ calls' = Append(calls, "omniparser.parse")
    /\ \/ /\ ui_elements' \in LoopElementLists
          /\ pc' = "decide"
          /\ UNCHANGED <<error, finished>>
       \/ /\ Raise(Exc("RuntimeError", "OmniParser request failed"))
          /\ UNCHANGED ui_elements
    /\ UNCHANGED <<cfgVars, ioVars, step_num, response, action, is_terminal, summary, events,
                   history, result, results, sharedVars, frontVars>>

\* step 2: prompt = self._build_prompt(ui_elements);
\*         response, raw = self.llm.predict(prompt, images=[labeled_img])
Decide ==
    /\ pc = "decide"
    /\ prompt' = _build_prompt(ui_elements, history, agent_screen)
    /\ calls' = Append(calls, "llm.predict")
    /\ \/ /\ response' \in LoopResponses
          /\ pc' = "parse"
          /\ UNCHANGED <<error, finished>>
       \/ /\ Raise(Exc("RuntimeError", "LLM request failed"))
          /\ UNCHANGED response
    /\ UNCHANGED <<cfgVars, screens, step_num, ui_elements, action, is_terminal, summary,
                   events, history, result, results, sharedVars, frontVars>>

\* step 3: reason, action = self._parse_response(response)
Parse ==
    /\ pc = "parse"
    /\ calls' = Append(calls, "_parse_response")
    /\ \E r \in {_parse_response(response)} :
       IF IsErr(r.err)
       THEN /\ Raise(r.err)
            /\ UNCHANGED action
       ELSE /\ action' = r.action
            /\ pc' = "execute"
            /\ UNCHANGED <<error, finished>>
    /\ UNCHANGED <<cfgVars, ioVars, step_num, ui_elements, response, is_terminal, summary, events,
                   history, result, results, sharedVars, frontVars>>

\* question = action.question or "Agent needs input"
AskQuestion(a) ==
    IF IsNone(a.question) \/ a.question = Some("") THEN "Agent needs input"
    ELSE Val(a.question)

(***************************************************************************)
(* Step 4 in the worker when the action is ask_user: the executor calls    *)
(* AgentWorker._ask_user, whose four statements interleave with the front  *)
(* end's thread.                                                           *)
(***************************************************************************)
\* The variant is an _ask_user that does not forget the reply before.
AskResetKeepsReply ==
    /\ pc = "execute" /\ driver = "gui" /\ action.action_type = "ask_user"
    /\ calls' = Append(calls, "execute")
    /\ pc' = "ask_clear"
    /\ UNCHANGED <<cfgVars, ioVars, step_num, ui_elements, response, action, is_terminal,
                   summary, events, error, runVars, sharedVars, frontVars>>

\* self._user_response = None
AskReset ==
    /\ pc = "execute" /\ driver = "gui" /\ action.action_type = "ask_user"
    /\ calls' = Append(calls, "execute")
    /\ _user_response' = None
    /\ pc' = "ask_clear"
    /\ UNCHANGED <<cfgVars, ioVars, step_num, ui_elements, response, action, is_terminal,
                   summary, events, error, runVars, _stop_flag, _response_event,
                   frontVars>>

\* self._response_event.clear()
AskClear ==
    /\ pc = "ask_clear"
    /\ _response_event' = FALSE
    /\ pc' = "ask_emit"
    /\ UNCHANGED <<cfgVars, ioVars, calls, step_num, ui_elements, response, action, is_terminal,
                   summary, events, error, runVars, _stop_flag, _user_response,
                   frontVars>>

\* self.ask_user_signal.emit(question): queued for the front end's thread.
AskEmit ==
    /\ pc = "ask_emit"
    /\ ask_signal' = Append(ask_signal, AskQuestion(action))
    /\ events' = <<EvAsk(AskQuestion(action))>>
    /\ pc' = "ask_wait"
    /\ UNCHANGED <<cfgVars, ioVars, calls, step_num, ui_elements, response, action, is_terminal,
                   summary, error, runVars, sharedVars, main_pc, dialog, worker>>

\* self._response_event.wait(): returns once the event is set.
AskWait ==
    /\ pc = "ask_wait"
    /\ _response_event
    /\ pc' = "ask_return"
    /\ UNCHANGED <<cfgVars, ioVars, calls, step_num, ui_elements, response, action, is_terminal,
                   summary, events, error, runVars, sharedVars, frontVars>>

\* return self._user_response or "", and the rest of the executor's branch:
\* action.user_response = response; return True.
AskReturn ==
    /\ pc = "ask_return"
    /\ \E r \in {AskUserBranch(action, ask_cb,
                                 IF IsNone(_user_response) THEN "" ELSE Val(_user_response))} :
           /\ action' = [action EXCEPT !.user_response = r.user_response]
           /\ is_terminal' = ~Val(r.ret)
    /\ pc' = "settle"
    /\ UNCHANGED <<cfgVars, ioVars, calls, step_num, ui_elements, response, summary, events, error,
                   runVars, sharedVars, frontVars>>

\* step 5: time.sleep(WAIT_AFTER_ACTION); after_screenshot = ...
Settle ==
    /\ Call("settle", "summarize", Exc("ScreenShotError", "screenshot failed"))
    /\ calls' = calls \o <<"sleep", "screenshot">>
    /\ UNCHANGED <<cfgVars, ioVars, step_num, ui_elements, response, action, is_terminal,
                   summary, events, history, result, results, sharedVars, frontVars>>

\* The variant asks for no summary after a terminal action.
SummarizeUnlessTerminal ==
    /\ pc = "summarize"
    /\ \/ /\ summary' = step_num + 1
          /\ calls' = IF is_terminal THEN calls ELSE Append(calls, "llm.predict")
          /\ pc' = "record"
          /\ UNCHANGED <<error, finished>>
       \/ /\ ~is_terminal
          /\ calls' = Append(calls, "llm.predict")
          /\ Raise(Exc("RuntimeError", "LLM request failed"))
          /\ UNCHANGED summary
    /\ UNCHANGED <<cfgVars, ioVars, step_num, ui_elements, response, action, is_terminal,
                   events, history, result, results, sharedVars, frontVars>>

\* step 6: summary = self._generate_summary(...); the text is stood for by
\* the number of the step it describes.
Summarize ==
    /\ pc = "summarize"
    /\ calls' = Append(calls, "llm.predict")
    /\ \/ /\ summary' = step_num + 1
          /\ pc' = "record"
          /\ UNCHANGED <<error, finished>>
       \/ /\ Raise(Exc("RuntimeError", "LLM request failed"))
          /\ UNCHANGED summary
    /\ UNCHANGED <<cfgVars, ioVars, step_num, ui_elements, response, action, is_terminal,
                   events, history, result, results, sharedVars, frontVars>>

\* steps 7 and 8: self.history.append(step_data); done; return StepResult(...)
Record ==
    /\ pc = "record"
    /\ calls' = Append(calls, "history.append")
    /\ history' = Append(history, [action |-> action, summary |-> summary])
    /\ result' = Some([action |-> action, summary |-> summary,
                       ui_elements |-> ui_elements, done |-> Done(is_terminal, action),
                       raw_response |-> response])
    /\ pc' = "check"
    /\ UNCHANGED <<cfgVars, ioVars, step_num, ui_elements, response, action, is_terminal,
                   summary, events, error, results, finished, sharedVars, frontVars>>

\* The variant is a worker that reports a done step and goes on with the loop.
CheckDoneWithoutReturn ==
    /\ pc = "check"
    /\ results' = IF driver = "run" THEN Append(results, Val(result)) ELSE results
    /\ IF LoopEnds(Val(result)) /\ driver = "run"
       THEN /\ UNCHANGED step_num
            /\ pc' = "returned" /\ UNCHANGED finished
       ELSE /\ step_num' = step_num + 1
            /\ pc' = "loop"
            /\ IF LoopEnds(Val(result)) THEN Emit(TRUE, "Task completed")
               ELSE UNCHANGED finished
    /\ UNCHANGED <<cfgVars, ioVars, calls, ui_elements, response, action, is_terminal, summary,
                   events, error, history, result, sharedVars, frontVars>>

\* The driver with the step's result.  run(): results.append(result), break
\* when done.  The worker: finished_signal(True, "Task <status>") and return
\* when done.  Otherwise the next turn of the loop.
Check ==
    /\ pc = "check"
    /\ results' = IF driver = "run" THEN Append(results, Val(result)) ELSE results
    /\ IF LoopEnds(Val(result))
       THEN /\ UNCHANGED step_num
            /\ IF driver = "run"
               THEN pc' = "returned" /\ UNCHANGED finished
               ELSE /\ pc' = "finished"
                    /\ Emit(TRUE, "Task " \o (IF IsNone(Val(result).action.goal_status)
                                              THEN "completed"
                                              ELSE Val(Val(result).action.goal_status)))
       ELSE /\ step_num' = step_num + 1
            /\ pc' = "loop"
            /\ UNCHANGED finished
    /\ UNCHANGED <<cfgVars, ioVars, calls, ui_elements, response, action, is_terminal, summary,
                   events, error, history, result, sharedVars, frontVars>>

(***************************************************************************)
(* The front end's thread (MainWindow), one handler at a time; the         *)
(* question dialog runs its own event loop, so stop can be asked for while *)
(* it is open.                                                             *)
(***************************************************************************)
\* stop_agent / quit_app: worker.stop(), first statement.
StopFlag ==
    /\ main_pc = "idle" /\ worker
    /\ _stop_flag' = TRUE
    /\ main_pc' = "stop"
    /\ UNCHANGED <<cfgVars, ioVars, stepVars, runVars, _user_response, _response_event,
                   dialog, ask_signal, worker>>

\* worker.stop(), second statement: self._response_event.set(); the variant
\* is a stop() that only raises the flag.
StopEventFlagOnly ==
    /\ main_pc = "stop"
    /\ main_pc' = "idle"
    /\ UNCHANGED <<cfgVars, ioVars, stepVars, runVars, sharedVars, dialog, ask_signal, worker>>

StopEvent ==
    /\ main_pc = "stop"
    /\ _response_event' = TRUE
    /\ main_pc' = "idle"
    /\ UNCHANGED <<cfgVars, ioVars, stepVars, runVars, _stop_flag, _user_response,
                   dialog, ask_signal, worker>>

\* on_ask_user up to the dialog: QInputDialog.getText is open.
OnAskUser ==
    /\ main_pc = "idle" /\ dialog = None /\ ask_signal # <<>>
    /\ dialog' = Some(Head(ask_signal))
    /\ ask_signal' = Tail(ask_signal)
    /\ UNCHANGED <<cfgVars, ioVars, stepVars, runVars, sharedVars, main_pc, worker>>

\* The dialog closes with a text (cancelling gives ""), and, if the window
\* still holds the worker, set_user_response(response), first statement.
Answer ==
    /\ main_pc = "idle" /\ dialog # None
    /\ dialog' = None
    /\ IF worker
       THEN \E text \in DialogTexts :
              /\ _user_response' = Some(text)
              /\ main_pc' = "set_response"
       ELSE UNCHANGED <<_user_response, main_pc>>
    /\ UNCHANGED <<cfgVars, ioVars, stepVars, runVars, _stop_flag, _response_event,
                   ask_signal, worker>>

\* set_user_response, second statement: self._response_event.set()
SetEvent ==
    /\ main_pc = "set_response"
    /\ _response_event' = TRUE
    /\ main_pc' = "idle"
    /\ UNCHANGED <<cfgVars, ioVars, stepVars, runVars, _stop_flag, _user_response,
                   dialog, ask_signal, worker>>

\* on_finished: self.worker = None
OnFinished ==
    /\ main_pc = "idle" /\ worker /\ finished # <<>>
    /\ worker' = FALSE
    /\ UNCHANGED <<cfgVars, ioVars, stepVars, runVars, sharedVars, main_pc, dialog, ask_signal>>

(***************************************************************************)
(* Spec: a run of either driver from its start.  FairSpec: the same, with  *)
(* both threads scheduled: a thread that can take its next statement       *)
(* eventually takes it.                                                    *)
(***************************************************************************)
Init ==
    /\ driver \in {"run", "gui"}
    /\ layout = LoopLayout
    /\ screens = <<>>
    /\ prompt = <<>>
    /\ agent_screen \in 0..(Len(layout) - 1)
    /\ ask_cb = (driver = "gui")
    /\ talk_cb = (driver = "gui")
    /\ max_steps \in 0..MaxSteps
    /\ pc = "setup"
    /\ step_num = 0
    /\ InitLocals
    /\ history \in (IF driver = "run" THEN {<<>>, EarlierHistory} ELSE {<<>>})
    /\ result = None
    /\ results = <<>>
    /\ finished = <<>>
    /\ InitShared
    /\ InitFront

WorkerNext ==
    \/ Setup \/ LoopHead \/ Observe \/ Perceive \/ Decide \/ Parse \/ Execute
    \/ AskReset \/ AskClear \/ AskEmit \/ AskWait \/ AskReturn
    \/ Settle \/ Summarize \/ Record \/ Check

FrontNext == StopFlag \/ StopEvent \/ OnAskUser \/ Answer \/ SetEvent \/ OnFinished

Next == WorkerNext \/ FrontNext

Spec == Init /\ [][Next]_vars

FairSpec ==
    /\ Init /\ [][Next]_vars
    /\ WF_vars(AskWait) /\ WF_vars(AskReturn)
    /\ WF_vars(StopEvent) /\ WF_vars(SetEvent)

(***************************************************************************)
(* Properties of execute, checked under SpecExec.                          *)
(***************************************************************************)
Executed == pc # "execute"
IndexOutOfRange ==
    /\ ~IsNone(action.index)
    /\ ~(0 <= Val(action.index) /\ Val(action.index) < Len(ui_elements))
InvalidIndex == Exc("ValueError", "Invalid element index")
NoPrimitiveInput == \A i \in 1..Len(events) : events[i].op \notin PrimitiveOps
NoCallback == \A i \in 1..Len(events) : events[i].op \notin CallbackOps
\* The kinds whose branch resolves the index it is given.
ResolvesIndex ==
    \/ action.action_type \in PointerKinds \cup {"input_text"}
    \/ action.action_type = "scroll" /\ ~IsNone(action.direction)

\* C1 as stated: execute on an action of any kind that carries an index
\* outside [0, N) fails with the invalid-index error, and no primitive input
\* operation has been invoked.
C1_AnyKindInvalidIndexFails ==
    (Executed /\ IndexOutOfRange) => (error = InvalidIndex /\ NoPrimitiveInput)

\* C1 amended: execute on a click, double_click, right_click, drag or
\* input_text action, or a scroll action that names a direction, carrying an
\* index outside [0, N) fails with the invalid-index error, and neither a
\* primitive input operation nor a callback has been invoked.
C1_TargetKindInvalidIndexFails ==
    (Executed /\ IndexOutOfRange /\ ResolvesIndex)
        => (error = InvalidIndex /\ pc = "raised" /\ events = <<>>)

C1_Witness ==
    /\ Executed /\ IndexOutOfRange
    /\ action.action_type = "input_text" /\ ~IsNone(action.text)
    /\ Val(action.index) = Len(ui_elements) /\ Len(ui_elements) > 0
    /\ error = InvalidIndex

\* C4: whenever execute returns, it returns continue=false exactly for the
\* kinds status and answer, and continue=true for every other recognized
\* kind.
C4_TerminalKindsOnly ==
    (pc = "settle" /\ action.action_type \in RecognizedKinds)
        => (is_terminal <=> action.action_type \in TerminalKinds)

C4_Witness ==
    /\ pc = "settle" /\ action.action_type = "answer" /\ is_terminal /\ talk_cb

\* C6: a hotkey action with keys [k1, ..., kn] that execute completes has
\* produced exactly press k1, ..., press kn, release kn, ..., release k1.
C6_HotkeyPressThenReverseRelease ==
    (pc = "settle" /\ action.action_type = "hotkey") =>
        LET ks == Val(action.keys)
            n == Len(ks)
        IN  /\ Len(events) = 2 * n
            /\ \A i \in 1..n : events[i] = EvKeyPress(_parse_key(ks[i]).key)
            /\ \A i \in 1..n : events[n + i] = EvKeyRelease(_parse_key(ks[n + 1 - i]).key)

C6_Witness ==
    /\ pc = "settle" /\ action.action_type = "hotkey"
    /\ ~IsNone(action.keys) /\ Len(Val(action.keys)) = MaxKeys
    /\ Val(action.keys)[1] = "ctrl" /\ Val(action.keys)[MaxKeys] = "c"
    /\ events[1] = EvKeyPress("Key.ctrl") /\ events[2 * MaxKeys] = EvKeyRelease("Key.ctrl")

\* C9: with no ask-user callback attached, execute on an ask_user action does
\* not wait (the call can always be taken to its end) and ends returning
\* continue=true, with no callback and no primitive input invoked and the
\* action's user_response still unset.
C9_AskUserWithoutCallback ==
    (action.action_type = "ask_user" /\ ~ask_cb) =>
        /\ ~Executed => ENABLED Execute
        /\ Executed => /\ pc = "settle" /\ ~is_terminal /\ error = NoErr
                       /\ events = <<>>
                       /\ IsNone(action.user_response)

C9_Witness ==
    /\ Executed /\ action.action_type = "ask_user" /\ ~ask_cb
    /\ action.question = Some("which?") /\ pc = "settle"

(***************************************************************************)
(* Properties of the step loop, checked under Spec and FairSpec.           *)
(***************************************************************************)
\* The step in progress has come back from execute.
StepExecuted == pc \in {"settle", "summarize", "record", "check"}
\* The run has been ended by the error e.
Aborted(e) == pc \in {"raised", "finished"} /\ error = e
AgentOffset == get_screen_offset(Some(agent_screen), layout)

\* C2: a click whose index equals the index field of an element of
\* the step's element list is never refused as an invalid index, and once
\* execute is back the pointer has been put on that element's center moved by
\* the configured monitor's offset and clicked there, execute has returned
\* continue=true, and the step's done is false.
C2_ClickTargetsIndexField ==
    \A p \in 1..Len(ui_elements) :
        (action.action_type = "click" /\ action.index = Some(ui_elements[p].index))
        => /\ ~Aborted(InvalidIndex)
           /\ StepExecuted =>
                /\ events = <<EvPosition(ui_elements[p].center[1] + AgentOffset.x,
                                         ui_elements[p].center[2] + AgentOffset.y),
                              EvClick("left", 1)>>
                /\ ~is_terminal
                /\ pc = "check" => ~Val(result).done

\* C3: for every step that completes, the StepResult's done flag is true if
\* and only if the action kind is status or execute returned continue=false
\* for the step's action.
C3_DoneIffStatusOrTerminal ==
    pc = "check" =>
        (Val(result).done <=> (Val(result).action.action_type = "status" \/ is_terminal))

C3_Witness ==
    /\ pc = "check" /\ Val(result).action.action_type = "answer"
    /\ is_terminal /\ Val(result).done

\* C5: when the action of step k is a status action, execute returns
\* continue=false, the step's done is true, and step k is the last: the
\* driver goes from the step's result straight to its end and starts no step
\* k+1, whatever is left of the budget, under both drivers.
C5_StatusEndsRun ==
    /\ (StepExecuted /\ action.action_type = "status") => is_terminal
    /\ \A k \in 1..Len(history) :
         history[k].action.action_type = "status"
         => /\ k = Len(history)
            /\ step_num = k - 1
            /\ Val(result).done
            /\ pc \in {"check", "returned", "finished"}
            /\ pc = "finished" =>
                 finished = <<[success |-> TRUE, message |-> "Task complete"]>>

C5_Witness ==
    /\ driver = "gui" /\ pc = "finished" /\ max_steps = MaxSteps
    /\ Len(history) = 1 /\ history[1].action.action_type = "status"
    /\ step_num + 1 < StepBudget

\* C8: in the worker, an ask_user exchange that returns while no reply has
\* been delivered returns the empty reply, execute returns continue=true
\* after it, and a stop() under way while the worker waits for the reply
\* always gets the worker out of the wait.
AskExchangeDone ==
    driver = "gui" /\ StepExecuted /\ action.action_type = "ask_user"
C8_StopUnblocksAskUser ==
    /\ []((AskExchangeDone /\ IsNone(_user_response)) => action.user_response = Some(""))
    /\ [](AskExchangeDone => ~is_terminal)
    /\ ((pc = "ask_wait" /\ main_pc = "stop") ~> (pc # "ask_wait"))

C8_Witness ==
    /\ AskExchangeDone /\ _stop_flag /\ IsNone(_user_response)
    /\ dialog = Some("which?")
    /\ action.user_response = Some("") /\ ~is_terminal

(***************************************************************************)
(* SpecParse: _parse_response as a function of the response.  A response   *)
(* is up to MaxChunks pieces in any order: prose, white space, the tag, a  *)
(* lone brace, whole objects, objects whose string value holds a closing   *)
(* brace or plain prose, and a brace pair around prose.                    *)
(***************************************************************************)
Object(body) == <<LB, body, RB>>
Chunks ==
    {<<PROSE>>, <<WS>>, <<TAG>>, <<LB>>, <<RB>>,
     Object(BODY_CLICK), Object(BODY_STATUS), Object(BODY_NOTE),
     <<LB, STR_OPEN, RB, STR_CLOSE, RB>>,
     <<LB, WS, STR_OPEN, PROSE, STR_CLOSE, WS, RB>>,
     <<LB, PROSE, RB>>}

RECURSIVE Flatten(_)
Flatten(chunks) ==
    IF chunks = <<>> THEN <<>> ELSE Head(chunks) \o Flatten(Tail(chunks))

ParseResponses == {Flatten(cs) : cs \in SeqsUpTo(Chunks, MaxChunks)}

InitParse ==
    /\ driver = "run"
    /\ layout = LoopLayout
    /\ screens = <<>>
    /\ prompt = <<>>
    /\ agent_screen = 0
    /\ ask_cb = FALSE
    /\ talk_cb = FALSE
    /\ max_steps = MaxSteps
    /\ pc = "parse"
    /\ step_num = 0
    /\ ui_elements = <<>>
    /\ response \in ParseResponses
    /\ action = NoAction
    /\ is_terminal = FALSE
    /\ summary = 0
    /\ events = <<>>
    /\ error = NoErr
    /\ calls = <<>>
    /\ InitRun
    /\ InitShared
    /\ InitFront

NextParse == Parse

SpecParse == InitParse /\ [][NextParse]_vars

\* The brace the leftmost "Action:" that is followed by white space and a
\* brace leads to (0: none), and the place where the JSON object that
\* starts at a brace is complete (0: there is no such object).
TagBrace(resp) ==
    LET i == FirstOf({i \in 1..Len(resp) :
                        /\ resp[i] = TAG
                        /\ SkipWs(resp, i + 1) <= Len(resp)
                        /\ resp[SkipWs(resp, i + 1)] = LB})
    IN  IF i = 0 THEN 0 ELSE SkipWs(resp, i + 1)
IsObject(text) == ~IsErr(json_loads(text).err) /\ json_loads(text).dict # "{}"
ObjectEnd(resp, j) ==
    FirstOf({k \in (j + 1)..Len(resp) : resp[k] = RB /\ IsObject(SubSeq(resp, j, k))})
HasTaggedBlock == TagBrace(response) # 0 /\ ObjectEnd(response, TagBrace(response)) # 0
TaggedBlock == SubSeq(response, TagBrace(response), ObjectEnd(response, TagBrace(response)))
ReturnsTaggedAction ==
    pc = "execute" /\ error = NoErr /\ action = from_dict(json_loads(TaggedBlock).dict)
\* C10: when the response holds a tagged action block, an object introduced
\* by "Action:", _parse_response returns the action of that block, whatever
\* else the response holds before or after it.
C10_TaggedBlockWins ==
    (pc # "parse" /\ HasTaggedBlock) => ReturnsTaggedAction


(***************************************************************************)
(* SpecCoord: a local point taken to global coordinates and back on one    *)
(* screen, for points around the origin and at a monitor's far edge, and   *)
(* for screen arguments in and out of the range of the layout.             *)
(***************************************************************************)
CoordOpts == ((0 - MaxCoord)..MaxCoord) \cup {1919, 0 - 1280}
CoordScreens == {None} \cup {Some(i) : i \in (0 - 3)..3}

InitCoord ==
    /\ driver = "run"
    /\ layout \in Layouts
    /\ screens = <<>>
    /\ prompt = <<>>
    /\ agent_screen = 0
    /\ ask_cb = FALSE
    /\ talk_cb = FALSE
    /\ max_steps = MaxSteps
    /\ pc = "local"
    /\ step_num = 0
    /\ ui_elements = <<>>
    /\ response = <<>>
    /\ \E x \in CoordOpts, y \in CoordOpts, s \in CoordScreens :
         action = [NoAction EXCEPT !.x = Some(x), !.y = Some(y), !.screen = s]
    /\ is_terminal = FALSE
    /\ summary = 0
    /\ events = <<>>
    /\ error = NoErr
    /\ calls = <<>>
    /\ InitRun
    /\ InitShared
    /\ InitFront

\* gx, gy = _to_global(x, y, screen)
ToGlobal ==
    /\ pc = "local"
    /\ \E g \in {_to_global(Val(action.x), Val(action.y), action.screen, layout)} :
         IF IsErr(g.err)
         THEN Raise(g.err) /\ UNCHANGED events
         ELSE /\ events' = <<EvPosition(g.x, g.y)>>
              /\ pc' = "global"
              /\ UNCHANGED <<error, finished>>
    /\ UNCHANGED <<cfgVars, ioVars, calls, step_num, ui_elements, response, action, is_terminal,
                   summary, history, result, results, sharedVars, frontVars>>

\* x, y = _from_global(gx, gy, screen)
FromGlobal ==
    /\ pc = "global"
    /\ \E l \in {_from_global(events[1].a, events[1].b, action.screen, layout)} :
         IF IsErr(l.err)
         THEN Raise(l.err) /\ UNCHANGED events
         ELSE /\ events' = Append(events, EvPosition(l.x, l.y))
              /\ pc' = "back"
              /\ UNCHANGED <<error, finished>>
    /\ UNCHANGED <<cfgVars, ioVars, calls, step_num, ui_elements, response, action, is_terminal,
                   summary, history, result, results, sharedVars, frontVars>>

NextCoord == ToGlobal \/ FromGlobal

SpecCoord == InitCoord /\ [][NextCoord]_vars

ValidScreen == ~IsNone(action.screen) /\ Val(action.screen) \in 0..(Len(layout) - 1)

\* C7: for a valid monitor index s and integers x, y, neither translation
\* fails, _to_global(x, y, s) is (x, y) moved by the origin of monitor s,
\* nothing more, and _from_global of that on the same s is (x, y) again.
C7_RoundTrip ==
    ValidScreen =>
        /\ error = NoErr /\ pc \in {"local", "global", "back"}
        /\ pc \in {"global", "back"} =>
             events[1] = EvPosition(Val(action.x) + layout[Val(action.screen) + 1].left,
                                    Val(action.y) + layout[Val(action.screen) + 1].top)
        /\ pc = "back" => events[2] = EvPosition(Val(action.x), Val(action.y))

C7_Witness ==
    /\ pc = "back" /\ action.screen = Some(1) /\ layout = LoopLayout
    /\ action.x = Some(1919) /\ action.y = Some(0 - MaxCoord)
    /\ events = <<EvPosition(1919 - 1280, 200 - MaxCoord), EvPosition(1919, 0 - MaxCoord)>>

(***************************************************************************)
(* Properties of failing runs, checked under Spec.                         *)
(***************************************************************************)
\* C11: a run that a step's error ended is never reported as successful:
\* run() has raised and returned no results, the worker's one report carries
\* success=false and the error's text; and a report with success=true is only
\* ever made after a step that completed with done=true and without error.
C11_ErrorNeverSuccess ==
    /\ IsErr(error) =>
         IF driver = "run" THEN pc = "raised"
         ELSE /\ pc = "finished"
              /\ finished = <<[success |-> FALSE, message |-> error.msg]>>
    /\ \A i \in 1..Len(finished) :
         finished[i].success =>
            /\ ~IsErr(error)
            /\ ~IsNone(result) /\ Val(result).done
            /\ history # <<>> /\ history[Len(history)].action = Val(result).action

C11_Witness ==
    /\ driver = "gui" /\ pc = "finished" /\ error = InvalidIndex
    /\ Len(history) = 1
    /\ finished = <<[success |-> FALSE, message |-> "Invalid element index"]>>

\* C12: once a call inside a step has failed, the run has stopped (run() has
\* raised, the worker has reported and returned) and stays so: the step makes
\* no further call, the failed one included, no later phase changes the
\* step's or the run's state, and no further step starts.
C12_FailureStopsRun ==
    /\ [](IsErr(error) => pc \in {"raised", "finished"})
    /\ [][IsErr(error) => UNCHANGED <<stepVars, runVars>>]_vars

C12_Witness ==
    /\ pc = "raised" /\ error = Exc("RuntimeError", "LLM request failed")
    /\ step_num = 1 /\ Len(history) = 1 /\ max_steps = MaxSteps
    /\ calls[Len(calls)] = "llm.predict" /\ Len(calls) = 9 + 8

\* A response that holds no object at all, and one whose only object has no
\* "action_type" member.
NoObject(resp) == \A i \in 1..Len(resp) : resp[i] # LB
KindlessObject(resp) ==
    {resp[i] : i \in 1..Len(resp)} \cap (Bodies \cup {STR_OPEN}) = {BODY_NOTE}
ParseError == {"ValueError", "JSONDecodeError"}

\* C13: a step whose response holds no object, or only an object that names
\* no action kind, has failed in _parse_response with a parse error: execute
\* has not been called for it and nothing has been appended to history.
C13_NoPlaceholderAction ==
    ((NoObject(response) \/ KindlessObject(response)) /\ response # <<>> /\ pc # "parse")
        => /\ pc \in {"raised", "finished"} /\ error.type \in ParseError
           /\ calls[Len(calls)] = "_parse_response"
           /\ Len(history) = step_num

(***************************************************************************)
(* Properties of the screen lookup, checked under SpecCoord.                *)
(***************************************************************************)
\* C14: with M monitors, a translation that names an integer screen outside
\* 0..M-1 has failed with an out-of-range error, and no position has been
\* computed from a monitor's geometry.
C14_OutOfRangeScreenFails ==
    (~IsNone(action.screen) /\ ~ValidScreen /\ pc # "local")
        => (pc = "raised" /\ error.type = "IndexError" /\ events = <<>>)

(***************************************************************************)
(* More properties of _parse_response, checked under SpecParse.            *)
(***************************************************************************)
\* The tag leads to a brace pair (a brace, and a closing brace somewhere
\* after it) from whose opening brace no text decodes as JSON.
TaggedMalformed ==
    /\ TagBrace(response) # 0
    /\ \E k \in (TagBrace(response) + 1)..Len(response) : response[k] = RB
    /\ \A k \in (TagBrace(response) + 1)..Len(response) :
         response[k] = RB => IsErr(json_loads(SubSeq(response, TagBrace(response), k)).err)
\* The first closing brace after the tagged brace: the malformed block's end.
TaggedClose ==
    Min({k \in (TagBrace(response) + 1)..Len(response) : response[k] = RB})
\* A well-formed object that names an action kind starts at m.
ActionObjectAt(m) ==
    /\ response[m] = LB /\ ObjectEnd(response, m) # 0
    /\ json_loads(SubSeq(response, m, ObjectEnd(response, m))).dict # BODY_NOTE
ActionAt(m) == from_dict(json_loads(SubSeq(response, m, ObjectEnd(response, m))).dict)

\* C15: when the tagged block does not decode and a well-formed action
\* object stands elsewhere in the response (before the tag or after the
\* block), _parse_response returns the action of such an object and does not
\* fail.
C15_FallsBackWhenMalformed ==
    ( /\ pc # "parse" /\ TaggedMalformed
      /\ \E m \in 1..Len(response) :
           (m < TagBrace(response) \/ m > TaggedClose) /\ ActionObjectAt(m) )
    => /\ pc = "execute" /\ error = NoErr
       /\ \E m \in 1..Len(response) :
            (m < TagBrace(response) \/ m > TaggedClose) /\ ActionObjectAt(m)
            /\ action = ActionAt(m)

(***************************************************************************)
(* Error kinds of a step, checked under Spec.                              *)
(***************************************************************************)
MissingTarget == Exc("ValueError", "Action requires either index or x,y coordinates")
TargetErrors == {InvalidIndex, MissingTarget}
\* The exception types _parse_response raises over the responses of the loop.
ParseErrorKinds ==
    {_parse_response(r).err.type :
        r \in {q \in LoopResponses : IsErr(_parse_response(q).err)}}
\* C16: a step that execute aborted with a target error (index out of range,
\* or no target) carries an error of a kind that _parse_response raises for
\* no unparseable response.
C16_TargetErrorKindDiffers ==
    (pc \in {"raised", "finished"} /\ error \in TargetErrors
        /\ calls # <<>> /\ calls[Len(calls)] = "execute")
    => error.type \notin ParseErrorKinds

\* C17: ComputerUseAgent.run with step budget max_steps (0 included) starts
\* no step beyond the budget, never holds more results than the budget, and
\* when it returns with no done step it returns exactly max_steps results and
\* no error.
C17_AtMostBudgetSteps ==
    driver = "run" =>
       /\ Len(results) <= max_steps
       /\ (pc \notin {"setup", "loop", "returned", "raised"} => step_num < max_steps)
       /\ ((pc = "returned" /\ \A i \in 1..Len(results) : ~results[i].done)
              => Len(results) = max_steps /\ error = NoErr)

(***************************************************************************)
(* get_all_screens over monitor topologies.                                *)
(***************************************************************************)
MaxMonitors == 3
MonitorOpts ==
    {Monitor(0, 0, 1920, 1080), Monitor(1920, 0, 1280, 1024),
     Monitor(-1280, 200, 1280, 1024), Monitor(0, -1080, 1920, 1080)}
Topologies == SeqsUpTo(MonitorOpts, MaxMonitors) \ {<<>>}

\* ScreenInfo(id, x, y, width, height, is_primary, name); the name
\* f"Screen {i}" is kept as the pair of its text and its number.
ScreenInfo(id, mon, is_primary) ==
    [id |-> id, x |-> mon.left, y |-> mon.top, width |-> mon.width,
     height |-> mon.height, is_primary |-> is_primary, name |-> <<"Screen ", id>>]

\* The variant numbers the monitors by their place in sct.monitors, the
\* combined one included.
get_all_screensFromOne(monitors) ==
    LET physical == Tail(SctMonitors(monitors)) IN
    [i \in 1..Len(physical) |-> ScreenInfo(i, physical[i], i = 0)]

\* get_all_screens(): enumerate(sct.monitors[1:]), i from 0.
get_all_screens(monitors) ==
    LET physical == Tail(SctMonitors(monitors)) IN
    [i \in 1..Len(physical) |-> ScreenInfo(i - 1, physical[i], i - 1 = 0)]

InitScreens ==
    /\ driver = "run"
    /\ layout \in Topologies
    /\ screens = <<>>
    /\ prompt = <<>>
    /\ agent_screen = 0
    /\ ask_cb = FALSE
    /\ talk_cb = FALSE
    /\ max_steps = MaxSteps
    /\ pc = "enumerate"
    /\ step_num = 0
    /\ InitLocals
    /\ InitRun
    /\ InitShared
    /\ InitFront

\* screens = get_all_screens()
GetAllScreens ==
    /\ pc = "enumerate"
    /\ screens' = get_all_screens(layout)
    /\ pc' = "enumerated"
    /\ UNCHANGED <<cfgVars, prompt, calls,
                   step_num, ui_elements, response, action, is_terminal, summary,
                   events, error, runVars, sharedVars, frontVars>>

NextScreens == GetAllScreens

SpecScreens == InitScreens /\ [][NextScreens]_vars

\* C18: for a topology of n >= 1 physical monitors get_all_screens returns n
\* entries whose ids are 0, 1, ..., n-1 in that order, each with the origin
\* and size of its monitor; exactly one entry has is_primary = TRUE and that
\* entry has id 0.
C18_IdsInOrderOnePrimary ==
    (pc = "enumerated" /\ Len(layout) >= 1) =>
       /\ Len(screens) = Len(layout)
       /\ \A i \in 1..Len(screens) :
            /\ screens[i].id = i - 1
            /\ <<screens[i].x, screens[i].y>> = <<layout[i].left, layout[i].top>>
            /\ <<screens[i].width, screens[i].height>> = <<layout[i].width, layout[i].height>>
       /\ Cardinality({i \in 1..Len(screens) : screens[i].is_primary}) = 1
       /\ \A i \in 1..Len(screens) : screens[i].is_primary => screens[i].id = 0
C18_Witness ==
    /\ pc = "enumerated" /\ Len(layout) = MaxMonitors
    /\ layout[1] = Monitor(1920, 0, 1280, 1024) /\ layout[2] = Monitor(0, 0, 1920, 1080)
    /\ screens[1].is_primary /\ screens[1].x = 1920 /\ screens[MaxMonitors].id = MaxMonitors - 1

(***************************************************************************)
(* The prompt of the decision call, checked under Spec.                    *)
(***************************************************************************)
\* The pieces that follow the two places where the prompt names the current
\* screen, up to the text that closes the place.
NamedScreen(text, opening, closing) ==
    LET i == Min({k \in 1..Len(text) : text[k] = opening})
        j == Min({k \in (i + 1)..Len(text) : text[k] = closing})
    IN  SubSeq(text, i + 1, j - 1)
\* C19: the prompt _build_prompt hands to the decision call names the
\* configured monitor index itself as the current screen, in both places.
C19_PromptStatesScreen ==
    prompt # <<>> =>
       /\ NamedScreen(prompt, "MULTI-SCREEN: - You are currently operating on screen ",
                      " (0=primary). ") = <<ToString(agent_screen)>>
       /\ NamedScreen(prompt, "- If \"screen\" is omitted, the current screen (",
                      ") is used.") = <<ToString(agent_screen)>>

(***************************************************************************)
(* The calls of a step, checked under Spec.                                *)
(***************************************************************************)
StepCalls ==
    <<"screenshot", "omniparser.parse", "llm.predict", "_parse_response", "execute",
      "sleep", "screenshot", "llm.predict", "history.append">>
\* C20: the calls of a run are the calls of its steps one step after the
\* other, each step's calls in the order capture, perception parse, decision
\* predict, response parse, execute, settle pause, capture, summary predict,
\* history append; a step that has completed has made each of them once, a
\* terminal action's step too, and the next step's first call comes after
\* the history append of the step before.
C20_StepCallsInOrder ==
    /\ \A i \in 1..Len(calls) : calls[i] = StepCalls[((i - 1) % Len(StepCalls)) + 1]
    /\ pc # "setup" => Len(history) = Len(calls) \div Len(StepCalls)
    /\ (pc \in {"check", "loop", "returned", "finished"} /\ ~IsErr(error))
          => Len(calls) = Len(StepCalls) * Len(history)
    /\ pc = "check" => /\ SubSeq(calls, Len(calls) - Len(StepCalls) + 1, Len(calls)) = StepCalls
                       /\ history[Len(history)].action = action
C20_Witness ==
    /\ pc = "check" /\ Len(history) = MaxSteps
    /\ action.action_type \in {"status", "answer"} /\ is_terminal /\ Val(result).done
    /\ Len(calls) = Len(StepCalls) * MaxSteps

(***************************************************************************)
(* The history of a run, checked under Spec.                               *)
(***************************************************************************)
\* C21: history is empty when the first step of a run starts; afterwards it
\* changes only when a step completes, by one entry for that step's action
\* added at the end, the entries before it staying as they were; a step that
\* fails adds nothing, and after an aborted run history holds the entries of
\* the steps completed before the error, in step order.
C21_HistoryAppendOnly ==
    /\ []((pc = "loop" /\ step_num = 0) => history = <<>>)
    /\ [][ \/ history' = history
           \/ pc = "setup" /\ history' = <<>>
           \/ /\ pc = "record" /\ pc' = "check"
              /\ history' = Append(history, [action |-> action, summary |-> summary]) ]_vars
    /\ [][IsErr(error') => history' = history]_vars
    /\ [](IsErr(error) => /\ Len(history) = step_num
                          /\ \A i \in 1..Len(history) : history[i].summary = i)
C21_Witness ==
    /\ driver = "run" /\ pc = "raised" /\ step_num = 1 /\ Len(history) = 1
    /\ history[1].summary = 1 /\ history[1].action.action_type = "click"
    /\ calls[Len(calls)] = "execute" /\ events = <<>>

(***************************************************************************)
(* Stopping the worker, checked under Spec.                                *)
(***************************************************************************)
StoppedByUser == [success |-> FALSE, message |-> "Stopped by user"]
\* C22: in the worker, once the stop flag is raised no step is started; the
\* step in flight goes on to its end, and the flag is acted on (the report
\* "Stopped by user") only at the head of the loop, between steps.
C22_NoStepAfterStop ==
    /\ [][(driver = "gui" /\ _stop_flag) => ~(pc = "loop" /\ pc' = "observe")]_vars
    /\ [][(finished' # finished /\ finished'[Len(finished')] = StoppedByUser)
             => (pc = "loop" /\ _stop_flag)]_vars
    /\ [][(driver = "gui" /\ _stop_flag /\ pc \notin {"setup", "loop", "finished"})
             => (finished' = finished \/ IsErr(error') \/ pc = "check")]_vars
C22_Witness ==
    /\ driver = "gui" /\ _stop_flag /\ pc = "finished" /\ max_steps = MaxSteps
    /\ finished = <<StoppedByUser>> /\ Len(history) = 1 /\ step_num = 1
    /\ Len(calls) = Len(StepCalls)

\* C23: a stop requested before the worker's ask_user exchange waits is not
\* lost: with stop() finished (flag up, front end back in its loop), the
\* worker never stands at _response_event.wait() with the event unset,
\* that is, waiting for the operator.
C23_EarlyStopNotLost ==
    (driver = "gui" /\ pc = "ask_wait" /\ _stop_flag /\ main_pc = "idle")
        => _response_event

(***************************************************************************)
(* Target and screen of the pointer kinds, checked under SpecExec.         *)
(***************************************************************************)
\* The screen the action is to work on (its own when it names one, the
\* executor's otherwise), whether it exists, and the global point of a point
\* local to it.
TargetScreen == IF IsNone(action.screen) THEN Some(agent_screen) ELSE action.screen
TargetScreenExists == ~IsErr(_get_monitor(TargetScreen, layout).err)
OnTargetScreen(x, y) ==
    EvPosition(x + get_screen_offset(TargetScreen, layout).x,
               y + get_screen_offset(TargetScreen, layout).y)
IndexInRange ==
    ~IsNone(action.index) /\ 0 <= Val(action.index) /\ Val(action.index) < Len(ui_elements)
HasXY == ~IsNone(action.x) /\ ~IsNone(action.y)
PointsFirstAt(x, y) == events # <<>> /\ events[1] = OnTargetScreen(x, y)
PointsFirstAtCenter ==
    PointsFirstAt(ui_elements[Val(action.index) + 1].center[1],
                  ui_elements[Val(action.index) + 1].center[2])

\* C24 as stated: for click, double_click, right_click and drag on an
\* existing screen, an index in range makes the element's center the target
\* even when x/y are present; in every other case x/y, when both present,
\* are the target; else execute fails with the missing-target error before
\* any primitive input.
C24_IndexInRangeElseXY ==
    (Executed /\ action.action_type \in PointerKinds /\ TargetScreenExists) =>
        IF IndexInRange THEN PointsFirstAtCenter
        ELSE IF HasXY THEN PointsFirstAt(Val(action.x), Val(action.y))
        ELSE error = MissingTarget /\ pc = "raised" /\ events = <<>>

\* C24 amended: an action that carries an index is resolved by the index
\* alone, to the element's center when it is in range (even when x/y are
\* present) and to the invalid-index error, before any primitive input,
\* when it is not (x/y are not consulted); an action without an index uses
\* (x, y) unchanged when both are present and fails with the missing-target
\* error before any primitive input otherwise.
C24_IndexThenXY ==
    (Executed /\ action.action_type \in PointerKinds /\ TargetScreenExists) =>
        IF IndexInRange THEN PointsFirstAtCenter
        ELSE IF ~IsNone(action.index)
             THEN error = InvalidIndex /\ pc = "raised" /\ events = <<>>
        ELSE IF HasXY THEN PointsFirstAt(Val(action.x), Val(action.y))
        ELSE error = MissingTarget /\ pc = "raised" /\ events = <<>>
C24_Witness ==
    /\ Executed /\ action.action_type = "right_click" /\ HasXY
    /\ action.index = Some(1) /\ Len(ui_elements) = MaxElems
    /\ action.screen = Some(1) /\ agent_screen = 0
    /\ Len(layout) = 2 /\ layout[2].left < 0
    /\ events = <<OnTargetScreen(CenterX(1), CenterY(1)), EvClick("right", 1)>>

IsPosition(e) == e.op = "position"
PositionEvents == SelectSeq(events, IsPosition)
Resolved == _get_coords(action, ui_elements)
ResolvedPoint == OnTargetScreen(Resolved.x, Resolved.y)
\* C25: every pointer position execute issues is the resolved target (for
\* drag also the destination action.x, action.y) shifted by the offset of
\* action.screen when the action carries one, screen 0 included, and of the
\* executor's own screen when it carries none; execute leaves the action's
\* x, y, index and screen as they were.
C25_PointerOnActionScreen ==
    /\ [](Executed =>
            /\ action.action_type \in {"click", "double_click", "right_click"}
                 => /\ PositionEvents \in {<<>>, <<ResolvedPoint>>}
                    /\ error = NoErr => PositionEvents # <<>>
            /\ action.action_type \in {"input_text", "scroll"}
                 => /\ PositionEvents \in {<<>>, <<ResolvedPoint>>}
                    /\ (error = NoErr /\ ~IsNone(action.index)) => PositionEvents # <<>>
            /\ action.action_type = "drag"
                 => /\ PositionEvents # <<>> => PositionEvents[1] = ResolvedPoint
                    /\ error = NoErr
                         => /\ Len(PositionEvents) = 1 + DragSteps
                            /\ PositionEvents[Len(PositionEvents)]
                                 = OnTargetScreen(Val(action.x), Val(action.y))
            /\ action.action_type \notin PointerKinds \cup {"input_text", "scroll"}
                 => PositionEvents = <<>>)
    /\ [][ /\ action'.x = action.x /\ action'.y = action.y
           /\ action'.index = action.index /\ action'.screen = action.screen ]_vars
C25_Witness ==
    /\ Executed /\ error = NoErr /\ action.action_type = "drag"
    /\ action.screen = Some(0) /\ agent_screen = 1 /\ Len(layout) = 2 /\ layout[2].left < 0
    /\ action.index = Some(1) /\ Len(ui_elements) = MaxElems
    /\ PositionEvents[1] = EvPosition(CenterX(1), CenterY(1))
    /\ PositionEvents[Len(PositionEvents)] = EvPosition(Val(action.x), Val(action.y))

\* C26: input_text and scroll honour an optional target given by index or,
\* without an index, by x and y: when execute returns, the pointer went to
\* the resolved point first (the click of input_text, the move of scroll),
\* and only an action with neither index nor x/y leaves the pointer alone.
C26_OptionalTargetHonoured ==
    (Executed /\ error = NoErr /\ TargetScreenExists
        /\ action.action_type \in {"input_text", "scroll"})
    => IF IndexInRange THEN PointsFirstAtCenter
       ELSE IF HasXY THEN PointsFirstAt(Val(action.x), Val(action.y))
       ELSE PositionEvents = <<>>

(***************************************************************************)
(* The digest of earlier steps in the decision prompt, checked under Spec. *)
(***************************************************************************)
\* The pieces of a text between two of its pieces.
Between(text, opening, closing) ==
    LET i == Min({k \in 1..Len(text) : text[k] = opening})
        j == Min({k \in (i + 1)..Len(text) : text[k] = closing})
    IN  SubSeq(text, i + 1, j - 1)
Digest == Between(prompt, "HISTORY:", "DETECTED UI ELEMENTS:")
\* The replies the operator gave in the steps of the run so far, by step
\* (the empty reply where none was given).
ReplyOf(i) ==
    IF IsNone(history[i].action.user_response) THEN ""
    ELSE Val(history[i].action.user_response)
DigestEntry(i) ==
    "Step " \o ToString(i) \o ": " \o ToString(i)
        \o (IF ReplyOf(i) = "" THEN "" ELSE " [User responded: " \o ReplyOf(i) \o "]")
Outstanding ==
    Len(ask_signal) + (IF dialog # None THEN 1 ELSE 0)
        + (IF main_pc = "set_response" THEN 1 ELSE 0)
\* C28: in every interleaving of the worker with the front end, an exchange
\* starts with no earlier question outstanding and no earlier reply kept, so
\* that the one question outstanding during it is its own; what it returns is
\* the reply stored for it, or the empty reply when none was stored.
C28_ReplyBelongsToQuestion ==
    /\ [](driver = "gui" =>
            /\ Outstanding <= 1
            /\ pc \in {"ask_clear", "ask_emit"}
                 => (Outstanding = 0 /\ _user_response = None)
            /\ (pc = "ask_wait" /\ Outstanding = 1 /\ dialog # None)
                 => Val(dialog) = AskQuestion(action))
    /\ [][(pc = "ask_return" /\ pc' = "settle")
            => action'.user_response
                 = Some(IF IsNone(_user_response) THEN "" ELSE Val(_user_response))]_vars
C28_Witness ==
    /\ driver = "gui" /\ pc = "settle" /\ step_num = 1
    /\ action.action_type = "ask_user" /\ action.user_response = Some("yes")
    /\ history[1].action.action_type = "ask_user"
    /\ history[1].action.user_response = Some("")
    /\ Outstanding = 0 /\ ~_stop_flag

(***************************************************************************)
(* The worker's report, checked under Spec.                                *)
(***************************************************************************)
\* C29: a worker run emits its finished report once and not twice, on each
\* of its ways out (no perception service, stop, done step, step error,
\* budget used up); once it has reported, the worker makes no call and
\* changes nothing more; and the front end lets go of the worker (and
\* enables Start again) only after the report, so a next worker starts when
\* this one has stopped stepping.
C29_ReportsOnce ==
    /\ [](driver = "gui" =>
            /\ Len(finished) <= 1
            /\ (pc = "finished") <=> (Len(finished) = 1)
            /\ ~worker => pc = "finished"
            /\ finished # <<>> =>
                 finished[1] \in
                    {[success |-> FALSE, message |-> "OmniParser URL not set"],
                     [success |-> FALSE, message |-> "OmniParser server unavailable"],
                     StoppedByUser,
                     [success |-> FALSE, message |-> "Max steps reached"],
                     [success |-> FALSE, message |-> error.msg]}
                    \cup {[success |-> TRUE, message |-> "Task " \o g] :
                            g \in {"completed", "complete", "infeasible"}})
    /\ [][pc = "finished" => UNCHANGED <<ioVars, stepVars, runVars>>]_vars
C29_Witness ==
    /\ driver = "gui" /\ pc = "finished" /\ ~worker /\ max_steps = MaxSteps
    /\ finished = <<[success |-> FALSE, message |-> "Max steps reached"]>>
    /\ Len(history) = MaxSteps /\ ~_stop_flag

\* C30: when a run has ended or aborted, a last step in which execute
\* invoked a primitive input operation has its action at the end of history.
C30_InputIsRecorded ==
    (pc \in {"returned", "raised", "finished"} /\ ~NoPrimitiveInput)
        => (history # <<>> /\ history[Len(history)].action = action)
====
